---- MODULE Spec2Model ----
(***************************************************************************)
(* Stream aggregation glue of vminsert (app/vminsert/common/streamaggr.go) *)
(* as a state machine: the lifecycle of the active aggregators pointer     *)
(* (InitStreamAggr, the config reloader goroutine, reloadStreamAggrConfig, *)
(* MustStopStreamAggr), the per-caller transformation context              *)
(* (streamAggrCtx.push, streamAggrCtx.Reset) and the feedback writer       *)
(* (pushAggregateSeries).                                                  *)
(*                                                                         *)
(* Byte strings are sequences of byte values.  A Go slice into an arena is *)
(* a record [off, len]: append only ever adds behind the bytes a view      *)
(* covers, so a view resolved against the arena reads what the Go view     *)
(* reads until the arena is reset.                                         *)
(***************************************************************************)
EXTENDS Integers, Sequences, FiniteSets, TLC

\* ------------------------------------------------------------------ bounds
\* Number of SIGHUP deliveries the environment makes.
MaxSighups == 2
\* Last value of the wall clock (seconds); the process starts at second 1.
MaxClock == 2
\* Number of ingestion workers, each owning one streamAggrCtx.
NumCtx == 1
\* Rows per pushed batch in the data-plane specification.
MaxRows == 2
\* Capacity of the caller-supplied matchIdxs buffer.
MaxBuf == 2
\* Series per pushAggregateSeries call.
MaxSeries == 3

\* ------------------------------------------------------------- byte strings
Nil == 0

\* "__name__"
NameKey == <<95, 95, 110, 97, 109, 101, 95, 95>>
\* "cpu", "host", "a", "b"
StrCpu == <<99, 112, 117>>
StrHost == <<104, 111, 115, 116>>
StrA == <<97>>
StrB == <<98>>

RECURSIVE Zeros(_)
Zeros(n) == IF n = 0 THEN <<>> ELSE <<0>> \o Zeros(n - 1)

RECURSIVE SeqsUpTo(_, _)
\* All sequences over S of length at most n.
SeqsUpTo(S, n) ==
    IF n = 0 THEN {<<>>}
    ELSE LET shorter == SeqsUpTo(S, n - 1)
         IN  shorter \cup {Append(s, x) : s \in {t \in shorter : Len(t) = n - 1}, x \in S}

\* ------------------------------------------------ metric name raw encoding
\* lib/storage marshalStringFast: 2-byte big-endian length, then the bytes.
marshalStringFast(s) == <<Len(s) \div 256, Len(s) % 256>> \o s

RECURSIVE MarshalMetricNameRaw(_)
\* lib/storage.MarshalMetricNameRaw: (name, value) pairs, the metric group
\* under the empty name; labels with an empty value are skipped.
MarshalMetricNameRaw(labels) ==
    IF labels = <<>> THEN <<>>
    ELSE LET l == Head(labels)
         IN  (IF Len(l.Value) = 0 THEN <<>>
              ELSE marshalStringFast(l.Name) \o marshalStringFast(l.Value))
             \o MarshalMetricNameRaw(Tail(labels))

\* lib/storage unmarshalBytesFast: [ok, s, tail].
unmarshalBytesFast(src) ==
    IF Len(src) < 2 THEN [ok |-> FALSE, s |-> <<>>, tail |-> <<>>]
    ELSE LET n == src[1] * 256 + src[2]
         IN  IF Len(src) < 2 + n THEN [ok |-> FALSE, s |-> <<>>, tail |-> <<>>]
             ELSE [ok |-> TRUE, s |-> SubSeq(src, 3, 2 + n),
                   tail |-> SubSeq(src, 3 + n, Len(src))]

EmptyMetricName == [MetricGroup |-> <<>>, Tags |-> <<>>]

RECURSIVE UnmarshalRawLoop(_, _)
UnmarshalRawLoop(src, mn) ==
    IF Len(src) = 0 THEN [ok |-> TRUE, mn |-> mn]
    ELSE LET k == unmarshalBytesFast(src)
         IN  IF ~k.ok THEN [ok |-> FALSE, mn |-> mn]
             ELSE LET v == unmarshalBytesFast(k.tail)
                  IN  IF ~v.ok THEN [ok |-> FALSE, mn |-> mn]
                      ELSE IF Len(k.s) = 0
                           THEN UnmarshalRawLoop(v.tail, [mn EXCEPT !.MetricGroup = v.s])
                           ELSE UnmarshalRawLoop(v.tail,
                                    [mn EXCEPT !.Tags = Append(@, [Key |-> k.s, Value |-> v.s])])

\* storage.MetricName.UnmarshalRaw: resets mn, then decodes src into it.
UnmarshalRaw(src) == UnmarshalRawLoop(src, EmptyMetricName)

\* ------------------------------------------------------------------ inputs
Lbl(n, v) == [Name |-> n, Value |-> v]

\* storage.MetricRow as the ingestion pipeline marshals it.
MetricRow(labels, ts, v) ==
    [MetricNameRaw |-> MarshalMetricNameRaw(labels), Timestamp |-> ts, Value |-> v]

\* cpu{host="a"} 1 @1000, cpu{host="b"} 2 @2000, cpu 1 @2000, and a row of
\* two tags with the metric group marshalled between them.
Rows ==
    { MetricRow(<<Lbl(<<>>, StrCpu), Lbl(StrHost, StrA)>>, 1000, 1),
      MetricRow(<<Lbl(<<>>, StrCpu), Lbl(StrHost, StrB)>>, 2000, 2),
      MetricRow(<<Lbl(<<>>, StrCpu)>>, 2000, 1),
      MetricRow(<<Lbl(StrA, StrB), Lbl(<<>>, StrB), Lbl(StrHost, StrA)>>, 1000, 2) }

\* Batches of the data-plane specification.
Batches == SeqsUpTo(Rows, MaxRows)

\* Caller-supplied matchIdxs buffers: a Go slice is its backing array (arr,
\* whose length is the capacity) and its length.  A buffer reused from an
\* earlier push still carries that push's flags.
ByteSlices == { [len |-> n, arr |-> a] : n \in 0..MaxBuf, a \in SeqsUpTo({0, 1}, MaxBuf) }
Bufs == { b \in ByteSlices : b.len <= Len(b.arr) }

\* Batches and buffers of the lifecycle specification, where the
\* interleaving and not the data is under test.
CtlBatches == { <<MetricRow(<<Lbl(<<>>, StrCpu), Lbl(StrHost, StrA)>>, 1000, 1)>> }
CtlBufs == { [len |-> 1, arr |-> <<1>>] }

\* The configurations the file can hold when it parses.
Configs == {1, 2}

\* --------------------------------------------------------------- the state
VARIABLES
    streamAggrConfig,     \* -streamAggr.config: "" or a path
    sasGlobal,            \* atomic.Pointer[streamaggr.Aggregators]: Nil or an instance
    insts,                \* the Aggregators constructed so far, by identity 1..Len
    saCfgReloads,         \* vminsert_streamagg_config_reloads_total
    saCfgReloadErr,       \* vminsert_streamagg_config_reloads_errors_total
    saCfgSuccess,         \* vminsert_streamagg_config_last_reload_successful
    saCfgTimestamp,       \* ..._last_reload_success_timestamp_seconds
    saCfgReloaderStopCh,  \* "nil", "open" or "closed"
    saCfgReloaderWG,      \* sync.WaitGroup counter
    sighupCh,             \* signals buffered in sighupCh (capacity 1)
    sighups,              \* SIGHUPs delivered so far
    now,                  \* fasttime.UnixTimestamp()
    mainPc,               \* the goroutine calling InitStreamAggr / MustStopStreamAggr
    mainSas,              \* MustStopStreamAggr's local sas
    rl,                   \* the config reloader goroutine: pc and reload's locals
    pc,                   \* per context: position inside push
    ctx,                  \* per context: streamAggrCtx
    loc,                  \* per context: push's parameters and locals
    fb,                   \* pushAggregateSeries: position and locals
    stored                \* what vmstorage.AddRows and the error log received
                          \* during the current pushAggregateSeries call

metricVars == <<saCfgReloads, saCfgReloadErr, saCfgSuccess, saCfgTimestamp>>
chanVars == <<saCfgReloaderStopCh, saCfgReloaderWG, sighupCh, sighups>>
mainVars == <<mainPc, mainSas>>
lifeVars == <<streamAggrConfig, sasGlobal, metricVars, chanVars, mainVars, rl>>
pushVars == <<pc, ctx, loc>>
fbVars == <<fb, stored>>
vars == <<lifeVars, insts, now, pushVars, fbVars>>

Ctxs == 1..NumCtx

\* ------------------------------------------- the aggregation engine's side
\* lib/streamaggr.LoadFromFile: a parse error, or a fresh running instance.
ParseErr == 0
LoadResults == Configs \cup {ParseErr}

NewAggregators(c) == [cfg |-> c, stops |-> 0, stopped |-> FALSE, inflight |-> 0]

\* Aggregators.Equal: same rules and options.
Equal(is, a, b) == IF a = Nil \/ b = Nil THEN FALSE ELSE is[a].cfg = is[b].cfg

\* Aggregators.MustStop is entered ...
MustStopCalled(is, a) == IF a = Nil THEN is ELSE [is EXCEPT ![a].stops = @ + 1]
\* ... blocks until the pushes inside the instance have drained ...
MustStopMayReturn(is, a) == IF a = Nil THEN TRUE ELSE is[a].inflight = 0
\* ... and returns with the instance's resources released.
MustStopReturned(is, a) == IF a = Nil THEN is ELSE [is EXCEPT ![a].stopped = TRUE]

\* Aggregators.Push is entered / has returned.
PushEntered(is, a) == [is EXCEPT ![a].inflight = @ + 1]
PushLeft(is, a) == [is EXCEPT ![a].inflight = @ - 1]

\* bytesutil.ResizeNoCopyMayOverallocate: reuse the backing array when it is
\* large enough, otherwise a zeroed one of the next power of two.
RECURSIVE roundToNearestPow2(_)
roundToNearestPow2(n) == IF n <= 1 THEN 1 ELSE 2 * roundToNearestPow2((n + 1) \div 2)

ResizeNoCopyMayOverallocate(b, n) ==
    IF n <= Len(b.arr) THEN [len |-> n, arr |-> b.arr]
    ELSE [len |-> n, arr |-> Zeros(roundToNearestPow2(n))]

\* -------------------------------------------------- streamAggrCtx, push
EmptyCtx == [mn |-> EmptyMetricName, tss |-> <<>>, labels |-> <<>>,
             samples |-> <<>>, buf |-> <<>>]

\* A string: the literal "__name__", or a view into buf.
NameLit == [lit |-> TRUE, off |-> 0, len |-> 0]
BufView(off, len) == [lit |-> FALSE, off |-> off, len |-> len]
Slice(off, len) == [off |-> off, len |-> len]

\* for _, tag := range mn.Tags { ... } of push, on (labels, buf).
RECURSIVE appendTags(_, _, _)
appendTags(labels, buf, tags) ==
    IF tags = <<>> THEN [labels |-> labels, buf |-> buf]
    ELSE LET tag == Head(tags)
             buf1 == buf \o tag.Key
             name == BufView(Len(buf), Len(buf1) - Len(buf))
             buf2 == buf1 \o tag.Value
             value == BufView(Len(buf1), Len(buf2) - Len(buf1))
         IN  appendTags(Append(labels, [Name |-> name, Value |-> value]), buf2, Tail(tags))

\* convertRow appending the "__name__" label behind the tags.
convertRow_NameLast(st, mr) ==
    LET mn == UnmarshalRaw(mr.MetricNameRaw).mn
        labelsLen == Len(st.labels)
        t == appendTags(st.labels, st.buf, mn.Tags)
        buf1 == t.buf \o mn.MetricGroup
        metricGroup == BufView(Len(t.buf), Len(buf1) - Len(t.buf))
        labels1 == Append(t.labels, [Name |-> NameLit, Value |-> metricGroup])
        samplesLen == Len(st.samples)
        samples == Append(st.samples, [Timestamp |-> mr.Timestamp, Value |-> mr.Value])
    IN  [mn |-> mn,
         tss |-> Append(st.tss, [Labels |-> Slice(labelsLen, Len(labels1) - labelsLen),
                                 Samples |-> Slice(samplesLen, Len(samples) - samplesLen)]),
         labels |-> labels1, samples |-> samples, buf |-> buf1]

\* One iteration of push's loop over mrs.
convertRow(st, mr) ==
    LET mn == UnmarshalRaw(mr.MetricNameRaw).mn
        labelsLen == Len(st.labels)
        buf1 == st.buf \o mn.MetricGroup
        metricGroup == BufView(Len(st.buf), Len(buf1) - Len(st.buf))
        labels1 == Append(st.labels, [Name |-> NameLit, Value |-> metricGroup])
        t == appendTags(labels1, buf1, mn.Tags)
        samplesLen == Len(st.samples)
        samples == Append(st.samples, [Timestamp |-> mr.Timestamp, Value |-> mr.Value])
    IN  [mn |-> mn,
         tss |-> Append(st.tss, [Labels |-> Slice(labelsLen, Len(t.labels) - labelsLen),
                                 Samples |-> Slice(samplesLen, Len(samples) - samplesLen)]),
         labels |-> t.labels, samples |-> samples, buf |-> t.buf]

RECURSIVE convertRows(_, _)
convertRows(st, mrs) ==
    IF mrs = <<>> THEN st ELSE convertRows(convertRow(st, Head(mrs)), Tail(mrs))

\* The zeroing loop left out.
zeroMatchIdxs_Skip(b) == b

\* for i := 0; i < len(matchIdxs); i++ { matchIdxs[i] = 0 }
zeroMatchIdxs(b) ==
    [len |-> b.len, arr |-> [i \in 1..Len(b.arr) |-> IF i <= b.len THEN 0 ELSE b.arr[i]]]

\* The resize left out: the caller's length is kept.
prepareMatchIdxs_NoResize(matchIdxs, n) == zeroMatchIdxs(matchIdxs)

\* Lines 213-216: matchIdxs resized to the batch's series count and zeroed.
prepareMatchIdxs(matchIdxs, n) ==
    zeroMatchIdxs(ResizeNoCopyMayOverallocate(matchIdxs, n))

\* Reset without the truncation of buf.
Reset_KeepsBuf(st) == [EmptyCtx EXCEPT !.buf = st.buf]

\* streamAggrCtx.Reset
Reset(st) == EmptyCtx

IdleLoc == [mrs |-> <<>>, tssLen |-> 0, matchIdxs |-> [len |-> 0, arr |-> <<>>], sas |-> Nil]

\* bytesutil.ToUnsafeString of a view, read now: bytes past the arena's
\* length are not the batch's any more.
Dangling == <<-1>>
ToUnsafeString(v, buf) ==
    IF v.lit THEN NameKey
    ELSE IF v.off + v.len <= Len(buf) THEN SubSeq(buf, v.off + 1, v.off + v.len)
    ELSE Dangling

\* tss[tssLen:], what push passes to Aggregators.Push.
PushedTss(c) == SubSeq(ctx[c].tss, loc[c].tssLen + 1, Len(ctx[c].tss))

\* What push returns on line 222.
Returned(c) == SubSeq(loc[c].matchIdxs.arr, 1, loc[c].matchIdxs.len)


\* ------------------------------------------------------------ initial state
\* The package's variables as the Go runtime initialises them, before
\* InitStreamAggr; the flag is whatever the command line gave.
IdleReloader == [pc |-> "none", sasNew |-> Nil, sas |-> Nil, sasOld |-> Nil]
IdleFb == [pc |-> "idle", tss |-> <<>>, i |-> 0, currentTimestamp |-> 0, mrs |-> <<>>]
NothingStored == [addRows |-> <<>>, errors |-> 0]

Init ==
    /\ streamAggrConfig \in {"", "aggr.yml"}
    /\ sasGlobal = Nil
    /\ insts = <<>>
    /\ saCfgReloads = 0
    /\ saCfgReloadErr = 0
    /\ saCfgSuccess = 0
    /\ saCfgTimestamp = 0
    /\ saCfgReloaderStopCh = "nil"
    /\ saCfgReloaderWG = 0
    /\ sighupCh = 0
    /\ sighups = 0
    /\ now = 1
    /\ mainPc = "start"
    /\ mainSas = Nil
    /\ rl = IdleReloader
    /\ pc = [c \in Ctxs |-> "idle"]
    /\ ctx = [c \in Ctxs |-> EmptyCtx]
    /\ loc = [c \in Ctxs |-> IdleLoc]
    /\ fb = IdleFb
    /\ stored = NothingStored

\* The process is past InitStreamAggr and has not exited in logger.Fatalf.
Serving == mainPc \notin {"start", "fatal"}

\* ------------------------------------------------------------- environment
\* One second passes.
Tick ==
    /\ Serving
    /\ now < MaxClock
    /\ now' = now + 1
    /\ UNCHANGED <<lifeVars, insts, pushVars, fbVars>>

\* The process receives SIGHUP: signal.Notify's non-blocking send into the
\* one-slot sighupCh, which exists once InitStreamAggr made it.
Sighup ==
    /\ Serving
    /\ streamAggrConfig # ""
    /\ sighups < MaxSighups
    /\ sighups' = sighups + 1
    /\ sighupCh' = 1
    /\ UNCHANGED <<streamAggrConfig, sasGlobal, metricVars, saCfgReloaderStopCh,
                   saCfgReloaderWG, mainVars, rl, insts, now, pushVars, fbVars>>

\* ---------------------------------------------------------- InitStreamAggr
\* InitStreamAggr starting the reloader without saCfgReloaderWG.Add(1).
InitStreamAggr_NoAdd ==
    /\ mainPc = "start"
    /\ saCfgReloaderStopCh' = "open"
    /\ \/ /\ streamAggrConfig = ""
          /\ mainPc' = "serving"
          /\ UNCHANGED <<sasGlobal, insts, metricVars, rl>>
       \/ /\ streamAggrConfig # ""
          /\ mainPc' = "fatal"
          /\ UNCHANGED <<sasGlobal, insts, metricVars, rl>>
       \/ /\ streamAggrConfig # ""
          /\ \E c \in Configs : insts' = Append(insts, NewAggregators(c))
          /\ sasGlobal' = Len(insts) + 1
          /\ saCfgSuccess' = 1
          /\ saCfgTimestamp' = now
          /\ rl' = [rl EXCEPT !.pc = "select"]
          /\ mainPc' = "serving"
          /\ UNCHANGED <<saCfgReloads, saCfgReloadErr>>
    /\ UNCHANGED <<streamAggrConfig, saCfgReloaderWG, sighupCh, sighups, mainSas, now,
                   pushVars, fbVars>>

InitStreamAggr ==
    /\ mainPc = "start"
    /\ saCfgReloaderStopCh' = "open"
    /\ \/ \* -streamAggr.config is empty: return
          /\ streamAggrConfig = ""
          /\ mainPc' = "serving"
          /\ UNCHANGED <<sasGlobal, insts, metricVars, saCfgReloaderWG, rl>>
       \/ \* LoadFromFile fails: logger.Fatalf
          /\ streamAggrConfig # ""
          /\ mainPc' = "fatal"
          /\ UNCHANGED <<sasGlobal, insts, metricVars, saCfgReloaderWG, rl>>
       \/ \* LoadFromFile succeeds: store, set the metrics, start the reloader
          /\ streamAggrConfig # ""
          /\ \E c \in Configs : insts' = Append(insts, NewAggregators(c))
          /\ sasGlobal' = Len(insts) + 1
          /\ saCfgSuccess' = 1
          /\ saCfgTimestamp' = now
          /\ saCfgReloaderWG' = saCfgReloaderWG + 1
          /\ rl' = [rl EXCEPT !.pc = "select"]
          /\ mainPc' = "serving"
          /\ UNCHANGED <<saCfgReloads, saCfgReloadErr>>
    /\ UNCHANGED <<streamAggrConfig, sighupCh, sighups, mainSas, now, pushVars, fbVars>>

\* ------------------------------------------------ the config reloader task
\* ReloaderSelect without the case for saCfgReloaderStopCh.
ReloaderSelect_IgnoresStop ==
    /\ rl.pc = "select"
    /\ sighupCh = 1
    /\ sighupCh' = 0
    /\ rl' = [rl EXCEPT !.pc = "reload"]
    /\ UNCHANGED <<streamAggrConfig, sasGlobal, metricVars, saCfgReloaderStopCh,
                   saCfgReloaderWG, sighups, mainVars, insts, now, pushVars, fbVars>>

\* select { case <-sighupCh: ; case <-saCfgReloaderStopCh: return }
ReloaderSelect ==
    /\ rl.pc = "select"
    /\ \/ /\ sighupCh = 1
          /\ sighupCh' = 0
          /\ rl' = [rl EXCEPT !.pc = "reload"]
          /\ UNCHANGED saCfgReloaderWG
       \/ /\ saCfgReloaderStopCh = "closed"
          /\ rl' = [rl EXCEPT !.pc = "exited"]
          /\ saCfgReloaderWG' = saCfgReloaderWG - 1
          /\ UNCHANGED sighupCh
    /\ UNCHANGED <<streamAggrConfig, sasGlobal, metricVars, saCfgReloaderStopCh, sighups,
                   mainVars, insts, now, pushVars, fbVars>>

\* reloadStreamAggrConfig, lines 103-109: count the attempt, parse the file.
ReloadLoadFromFile ==
    /\ rl.pc = "reload"
    /\ saCfgReloads' = saCfgReloads + 1
    /\ \E r \in LoadResults :
          IF r = ParseErr
          THEN /\ rl' = [rl EXCEPT !.pc = "fail"]
               /\ UNCHANGED insts
          ELSE /\ insts' = Append(insts, NewAggregators(r))
               /\ rl' = [rl EXCEPT !.pc = "load", !.sasNew = Len(insts) + 1]
    /\ UNCHANGED <<streamAggrConfig, sasGlobal, saCfgReloadErr, saCfgSuccess, saCfgTimestamp,
                   chanVars, mainVars, now, pushVars, fbVars>>

\* ReloadFail with the failed load's nil result swapped in.
ReloadFail_Swaps ==
    /\ rl.pc = "fail"
    /\ saCfgSuccess' = 0
    /\ saCfgReloadErr' = saCfgReloadErr + 1
    /\ sasGlobal' = rl.sasNew
    /\ rl' = [IdleReloader EXCEPT !.pc = "select"]
    /\ UNCHANGED <<streamAggrConfig, saCfgReloads, saCfgTimestamp, chanVars,
                   mainVars, insts, now, pushVars, fbVars>>

\* Lines 110-115: the parse failed.
ReloadFail ==
    /\ rl.pc = "fail"
    /\ saCfgSuccess' = 0
    /\ saCfgReloadErr' = saCfgReloadErr + 1
    /\ rl' = [IdleReloader EXCEPT !.pc = "select"]
    /\ UNCHANGED <<streamAggrConfig, sasGlobal, saCfgReloads, saCfgTimestamp, chanVars,
                   mainVars, insts, now, pushVars, fbVars>>

\* ReloadLoad without the Equal check.
ReloadLoad_AlwaysSwap ==
    /\ rl.pc = "load"
    /\ rl' = [rl EXCEPT !.sas = sasGlobal, !.pc = "swap"]
    /\ UNCHANGED <<streamAggrConfig, sasGlobal, metricVars, chanVars, mainVars, insts, now,
                   pushVars, fbVars>>

\* Lines 116-117: load the active pointer and compare.
ReloadLoad ==
    /\ rl.pc = "load"
    /\ rl' = [rl EXCEPT !.sas = sasGlobal,
                        !.pc = IF ~Equal(insts, rl.sasNew, sasGlobal)
                               THEN "swap" ELSE "stopNew"]
    /\ UNCHANGED <<streamAggrConfig, sasGlobal, metricVars, chanVars, mainVars, insts, now,
                   pushVars, fbVars>>

\* Line 118: sasOld := sasGlobal.Swap(sasNew)
ReloadSwap ==
    /\ rl.pc = "swap"
    /\ rl' = [rl EXCEPT !.sasOld = sasGlobal, !.pc = "stopOld"]
    /\ sasGlobal' = rl.sasNew
    /\ UNCHANGED <<streamAggrConfig, metricVars, chanVars, mainVars, insts, now, pushVars,
                   fbVars>>

\* ReloadStopOld stopping sasNew in place of sasOld.
ReloadStopOld_StopsNew ==
    /\ rl.pc = "stopOld"
    /\ insts' = MustStopCalled(insts, rl.sasNew)
    /\ rl' = [rl EXCEPT !.pc = "waitOld"]
    /\ UNCHANGED <<streamAggrConfig, sasGlobal, metricVars, chanVars, mainVars, now,
                   pushVars, fbVars>>

\* Line 119: sasOld.MustStop() is called ...
ReloadStopOld ==
    /\ rl.pc = "stopOld"
    /\ insts' = MustStopCalled(insts, rl.sasOld)
    /\ rl' = [rl EXCEPT !.pc = "waitOld"]
    /\ UNCHANGED <<streamAggrConfig, sasGlobal, metricVars, chanVars, mainVars, now,
                   pushVars, fbVars>>

\* ... and returns.
ReloadStopOldReturn ==
    /\ rl.pc = "waitOld"
    /\ MustStopMayReturn(insts, rl.sasOld)
    /\ insts' = MustStopReturned(insts, rl.sasOld)
    /\ rl' = [rl EXCEPT !.pc = "ok"]
    /\ UNCHANGED <<streamAggrConfig, sasGlobal, metricVars, chanVars, mainVars, now,
                   pushVars, fbVars>>

\* ReloadStopNew dropping the candidate without calling MustStop.
ReloadStopNew_Leaks ==
    /\ rl.pc = "stopNew"
    /\ rl' = [rl EXCEPT !.pc = "ok"]
    /\ UNCHANGED <<streamAggrConfig, sasGlobal, metricVars, chanVars, mainVars, insts, now,
                   pushVars, fbVars>>

\* Line 123: sasNew.MustStop() is called ...
ReloadStopNew ==
    /\ rl.pc = "stopNew"
    /\ insts' = MustStopCalled(insts, rl.sasNew)
    /\ rl' = [rl EXCEPT !.pc = "waitNew"]
    /\ UNCHANGED <<streamAggrConfig, sasGlobal, metricVars, chanVars, mainVars, now,
                   pushVars, fbVars>>

\* ... and returns.
ReloadStopNewReturn ==
    /\ rl.pc = "waitNew"
    /\ MustStopMayReturn(insts, rl.sasNew)
    /\ insts' = MustStopReturned(insts, rl.sasNew)
    /\ rl' = [rl EXCEPT !.pc = "ok"]
    /\ UNCHANGED <<streamAggrConfig, sasGlobal, metricVars, chanVars, mainVars, now,
                   pushVars, fbVars>>

\* ReloadSuccess without saCfgSuccess.Set(1).
ReloadSuccess_KeepsFlag ==
    /\ rl.pc = "ok"
    /\ saCfgTimestamp' = now
    /\ rl' = [IdleReloader EXCEPT !.pc = "select"]
    /\ UNCHANGED <<streamAggrConfig, sasGlobal, saCfgReloads, saCfgReloadErr, saCfgSuccess,
                   chanVars, mainVars, insts, now, pushVars, fbVars>>

\* Lines 125-127: record the success and go back to the select.
ReloadSuccess ==
    /\ rl.pc = "ok"
    /\ saCfgSuccess' = 1
    /\ saCfgTimestamp' = now
    /\ rl' = [IdleReloader EXCEPT !.pc = "select"]
    /\ UNCHANGED <<streamAggrConfig, sasGlobal, saCfgReloads, saCfgReloadErr, chanVars,
                   mainVars, insts, now, pushVars, fbVars>>

\* ------------------------------------------------------ MustStopStreamAggr
\* MustStopClose taking the pointer before the reloader has been waited for.
MustStopClose_TakesPointer ==
    /\ mainPc = "serving"
    /\ saCfgReloaderStopCh' = "closed"
    /\ mainSas' = sasGlobal
    /\ sasGlobal' = Nil
    /\ mainPc' = "wait"
    /\ UNCHANGED <<streamAggrConfig, metricVars, saCfgReloaderWG, sighupCh,
                   sighups, rl, insts, now, pushVars, fbVars>>

\* Line 131: close(saCfgReloaderStopCh)
MustStopClose ==
    /\ mainPc = "serving"
    /\ saCfgReloaderStopCh' = "closed"
    /\ mainPc' = "wait"
    /\ UNCHANGED <<streamAggrConfig, sasGlobal, metricVars, saCfgReloaderWG, sighupCh,
                   sighups, mainSas, rl, insts, now, pushVars, fbVars>>

\* MustStopWait returning while the reloader still runs.
MustStopWait_NoWait ==
    /\ mainPc = "wait"
    /\ mainPc' = "swap"
    /\ UNCHANGED <<streamAggrConfig, sasGlobal, metricVars, chanVars, mainSas, rl, insts,
                   now, pushVars, fbVars>>

\* Line 132: saCfgReloaderWG.Wait() returns
MustStopWait ==
    /\ mainPc = "wait"
    /\ saCfgReloaderWG = 0
    /\ mainPc' = "swap"
    /\ UNCHANGED <<streamAggrConfig, sasGlobal, metricVars, chanVars, mainSas, rl, insts,
                   now, pushVars, fbVars>>

\* Line 134: sas := sasGlobal.Swap(nil)
MustStopSwap ==
    /\ mainPc = "swap"
    /\ mainSas' = sasGlobal
    /\ sasGlobal' = Nil
    /\ mainPc' = "stop"
    /\ UNCHANGED <<streamAggrConfig, metricVars, chanVars, rl, insts, now, pushVars, fbVars>>

\* Line 135: sas.MustStop() is called ...
MustStopStop ==
    /\ mainPc = "stop"
    /\ insts' = MustStopCalled(insts, mainSas)
    /\ mainPc' = "waitStop"
    /\ UNCHANGED <<streamAggrConfig, sasGlobal, metricVars, chanVars, mainSas, rl, now,
                   pushVars, fbVars>>

\* ... and returns, and so does MustStopStreamAggr.
MustStopReturn ==
    /\ mainPc = "waitStop"
    /\ MustStopMayReturn(insts, mainSas)
    /\ insts' = MustStopReturned(insts, mainSas)
    /\ mainPc' = "done"
    /\ UNCHANGED <<streamAggrConfig, sasGlobal, metricVars, chanVars, mainSas, rl, now,
                   pushVars, fbVars>>


\* ------------------------------------------------------ streamAggrCtx.push
\* Load seeing a reload's candidate before the swap publishes it.
Load_Candidate == IF rl.sasNew # Nil THEN rl.sasNew ELSE sasGlobal

\* atomic.Pointer.Load of sasGlobal
Load == sasGlobal

\* Lines 159-216: convert mrs into ctx's arenas, size and zero matchIdxs.
\* The rows are ones the pipeline marshalled, which UnmarshalRaw decodes;
\* any other row ends the process in logger.Panicf.
PushConvert(c, mrs, matchIdxs) ==
    /\ Serving
    /\ pc[c] = "idle"
    /\ \A i \in 1..Len(mrs) : UnmarshalRaw(mrs[i].MetricNameRaw).ok
    /\ LET st == convertRows(ctx[c], mrs)
           tssLen == Len(ctx[c].tss)
       IN  /\ ctx' = [ctx EXCEPT ![c] = st]
           /\ loc' = [loc EXCEPT ![c] =
                        [mrs |-> mrs, tssLen |-> tssLen,
                         matchIdxs |-> prepareMatchIdxs(matchIdxs, Len(st.tss) - tssLen),
                         sas |-> Nil]]
    /\ pc' = [pc EXCEPT ![c] = "load"]
    /\ UNCHANGED <<lifeVars, insts, now, fbVars>>

\* PushLoad with ctx.Reset() moved in front of the Push call.
PushLoad_ResetsFirst(c) ==
    /\ pc[c] = "load"
    /\ loc' = [loc EXCEPT ![c].sas = Load]
    /\ ctx' = [ctx EXCEPT ![c] = Reset(ctx[c])]
    /\ pc' = [pc EXCEPT ![c] = "call"]
    /\ UNCHANGED <<lifeVars, insts, now, fbVars>>

\* Line 217: sas := sasGlobal.Load()
PushLoad(c) ==
    /\ pc[c] = "load"
    /\ loc' = [loc EXCEPT ![c].sas = Load]
    /\ pc' = [pc EXCEPT ![c] = "call"]
    /\ UNCHANGED <<lifeVars, insts, now, ctx, fbVars>>

\* Line 218: sas.Push(tss, matchIdxs) is called.  On the nil Aggregators it
\* returns matchIdxs at once; otherwise the push is now inside the instance.
PushCall(c) ==
    /\ pc[c] = "call"
    /\ IF loc[c].sas = Nil
       THEN /\ pc' = [pc EXCEPT ![c] = "reset"]
            /\ UNCHANGED insts
       ELSE /\ insts' = PushEntered(insts, loc[c].sas)
            /\ pc' = [pc EXCEPT ![c] = "inPush"]
    /\ UNCHANGED <<lifeVars, now, ctx, loc, fbVars>>

\* Line 218: Aggregators.Push returns matchIdxs with the matched rows flagged.
PushReturn(c) ==
    /\ pc[c] = "inPush"
    /\ insts' = PushLeft(insts, loc[c].sas)
    /\ \E flags \in [1..loc[c].matchIdxs.len -> {0, 1}] :
          loc' = [loc EXCEPT ![c].matchIdxs.arr =
                     [i \in 1..Len(@) |-> IF i <= loc[c].matchIdxs.len THEN flags[i] ELSE @[i]]]
    /\ pc' = [pc EXCEPT ![c] = "reset"]
    /\ UNCHANGED <<lifeVars, now, ctx, fbVars>>

\* PushReset also storing nil into sasGlobal.
PushReset_ClearsPointer(c) ==
    /\ pc[c] = "reset"
    /\ ctx' = [ctx EXCEPT ![c] = Reset(ctx[c])]
    /\ loc' = [loc EXCEPT ![c] = IdleLoc]
    /\ pc' = [pc EXCEPT ![c] = "idle"]
    /\ sasGlobal' = Nil
    /\ UNCHANGED <<streamAggrConfig, metricVars, chanVars, mainVars, rl, insts, now, fbVars>>

\* Lines 220-222: ctx.Reset(); return matchIdxs
PushReset(c) ==
    /\ pc[c] = "reset"
    /\ ctx' = [ctx EXCEPT ![c] = Reset(ctx[c])]
    /\ loc' = [loc EXCEPT ![c] = IdleLoc]
    /\ pc' = [pc EXCEPT ![c] = "idle"]
    /\ UNCHANGED <<lifeVars, insts, now, fbVars>>

\* streamAggrCtx.Reset called by the context's owner between pushes.
ResetCtx(c) ==
    /\ Serving
    /\ pc[c] = "idle"
    /\ ctx' = [ctx EXCEPT ![c] = Reset(ctx[c])]
    /\ UNCHANGED <<lifeVars, insts, now, pc, loc, fbVars>>

\* ------------------------------------------------------ pushAggregateSeries
\* Series the engine flushes: cpu:sum{host="a"}, cpu:max with two samples,
\* a series without a name label.
AggrSeries ==
    { [Labels |-> <<Lbl(NameKey, StrCpu), Lbl(StrHost, StrA)>>,
       Samples |-> <<[Timestamp |-> 1000, Value |-> 3]>>],
      [Labels |-> <<Lbl(NameKey, StrB)>>,
       Samples |-> <<[Timestamp |-> 1000, Value |-> 1], [Timestamp |-> 2000, Value |-> 2]>>],
      [Labels |-> <<Lbl(StrHost, StrB)>>,
       Samples |-> <<[Timestamp |-> 2000, Value |-> 4]>>] }
AggrOutputs == SeqsUpTo(AggrSeries, MaxSeries)

\* Lines 231-239: ctx.Labels for one series, "__name__" renamed to "".
RECURSIVE addLabels(_)
addLabels(labels) ==
    IF labels = <<>> THEN <<>>
    ELSE LET label == Head(labels)
             name == IF label.Name = NameKey THEN <<>> ELSE label.Name
         IN  <<Lbl(name, label.Value)>> \o addLabels(Tail(labels))

\* The row InsertCtx.WriteDataPoint(nil, ctx.Labels, timestamp, value) appends
\* to ctx.mrs when it succeeds.
WriteDataPoint(labels, timestamp, value) ==
    [MetricNameRaw |-> MarshalMetricNameRaw(labels), Timestamp |-> timestamp, Value |-> value]

\* The engine calls pushAggregateSeries from the flush of a live instance.
\* Lines 226-229.
FbStart(tss) ==
    /\ fb.pc \in {"idle", "failed", "done"}
    /\ \E a \in 1..Len(insts) : ~insts[a].stopped
    /\ fb' = [pc |-> "loop", tss |-> tss, i |-> 1, currentTimestamp |-> now * 1000,
              mrs |-> <<>>]
    /\ stored' = NothingStored
    /\ UNCHANGED <<lifeVars, insts, now, pushVars>>

\* FbRow logging the failure and going on to the next series.
FbRow_Continues ==
    /\ fb.pc = "loop"
    /\ fb.i <= Len(fb.tss)
    /\ LET ts == fb.tss[fb.i]
           value == ts.Samples[1].Value
       IN  \/ /\ fb' = [fb EXCEPT !.mrs = Append(@, WriteDataPoint(addLabels(ts.Labels),
                                                        fb.currentTimestamp, value)),
                                  !.i = @ + 1]
              /\ UNCHANGED stored
           \/ /\ fb' = [fb EXCEPT !.i = @ + 1]
              /\ stored' = [stored EXCEPT !.errors = @ + 1]
    /\ UNCHANGED <<lifeVars, insts, now, pushVars>>

\* Lines 230-246: one iteration of the loop over tss.
FbRow ==
    /\ fb.pc = "loop"
    /\ fb.i <= Len(fb.tss)
    /\ LET ts == fb.tss[fb.i]
           value == ts.Samples[1].Value
       IN  \/ \* WriteDataPoint succeeds
              /\ fb' = [fb EXCEPT !.mrs = Append(@, WriteDataPoint(addLabels(ts.Labels),
                                                        fb.currentTimestamp, value)),
                                  !.i = @ + 1]
              /\ UNCHANGED stored
           \/ \* WriteDataPoint fails: log and return
              /\ fb' = [fb EXCEPT !.pc = "failed"]
              /\ stored' = [stored EXCEPT !.errors = @ + 1]
    /\ UNCHANGED <<lifeVars, insts, now, pushVars>>

\* FbFlush calling vmstorage.AddRows again after it returned an error.
FbFlush_Retries ==
    /\ fb.pc = "loop"
    /\ fb.i > Len(fb.tss)
    /\ fb' = [fb EXCEPT !.pc = "done"]
    /\ \/ stored' = [stored EXCEPT !.addRows = Append(@, fb.mrs)]
       \/ stored' = [stored EXCEPT !.addRows = Append(Append(@, fb.mrs), fb.mrs),
                                   !.errors = @ + 1]
    /\ UNCHANGED <<lifeVars, insts, now, pushVars>>

\* Lines 249-252: vmstorage.AddRows(ctx.mrs), logging its error.
FbFlush ==
    /\ fb.pc = "loop"
    /\ fb.i > Len(fb.tss)
    /\ fb' = [fb EXCEPT !.pc = "done"]
    /\ \/ stored' = [stored EXCEPT !.addRows = Append(@, fb.mrs)]
       \/ stored' = [stored EXCEPT !.addRows = Append(@, fb.mrs), !.errors = @ + 1]
    /\ UNCHANGED <<lifeVars, insts, now, pushVars>>

\* ---------------------------------------------------------- specifications
Reloader ==
    \/ ReloaderSelect
    \/ ReloadLoadFromFile
    \/ ReloadFail
    \/ ReloadLoad
    \/ ReloadSwap
    \/ ReloadStopOld
    \/ ReloadStopOldReturn
    \/ ReloadStopNew
    \/ ReloadStopNewReturn
    \/ ReloadSuccess

MustStopStreamAggr ==
    \/ MustStopClose
    \/ MustStopWait
    \/ MustStopSwap
    \/ MustStopStop
    \/ MustStopReturn

PushRest(c) ==
    \/ PushLoad(c)
    \/ PushCall(c)
    \/ PushReturn(c)
    \/ PushReset(c)
    \/ ResetCtx(c)

\* The lifecycle: init, reloads, shutdown and pushes in every interleaving.
Next ==
    \/ Tick
    \/ Sighup
    \/ InitStreamAggr
    \/ Reloader
    \/ MustStopStreamAggr
    \/ \E c \in Ctxs : \E mrs \in CtlBatches, b \in CtlBufs : PushConvert(c, mrs, b)
    \/ \E c \in Ctxs : PushRest(c)

Spec == Init /\ [][Next]_vars

\* Shutdown under fair scheduling: a goroutine that can take a step
\* eventually takes it.  That holds for the reloader, for MustStopStreamAggr
\* once it has been called, and for a push inside Aggregators.Push, which the
\* engine returns from; SIGHUPs are finitely many.  The clock is left out: no
\* branch reads it.
MustStopRest ==
    \/ MustStopWait
    \/ MustStopSwap
    \/ MustStopStop
    \/ MustStopReturn

NextStop ==
    \/ Sighup
    \/ InitStreamAggr
    \/ Reloader
    \/ MustStopClose
    \/ MustStopRest
    \/ \E c \in Ctxs : \E mrs \in CtlBatches, b \in CtlBufs : PushConvert(c, mrs, b)
    \/ \E c \in Ctxs : PushRest(c)

SpecStop ==
    /\ Init
    /\ [][NextStop]_vars
    /\ WF_vars(Reloader)
    /\ WF_vars(MustStopRest)
    /\ \A c \in Ctxs : WF_vars(PushReturn(c))

\* The data plane: every batch pushed into every buffer, with aggregation
\* enabled, disabled or shut down.  Contexts share nothing but sasGlobal, so
\* one of them carries the data.
DataCtxs == {CHOOSE c \in Ctxs : \A d \in Ctxs : c <= d}

NextPush ==
    \/ InitStreamAggr
    \/ ReloaderSelect
    \/ MustStopStreamAggr
    \/ \E c \in DataCtxs : \E mrs \in Batches, b \in Bufs : PushConvert(c, mrs, b)
    \/ \E c \in DataCtxs : PushRest(c)

SpecPush == Init /\ [][NextPush]_vars

\* The feedback writer on every engine output.
NextFb ==
    \/ InitStreamAggr
    \/ Tick
    \/ \E tss \in AggrOutputs : FbStart(tss)
    \/ FbRow
    \/ FbFlush

SpecFb == Init /\ [][NextFb]_vars


\* ------------------------------------------------------------------ claims
\* A push holds instance a from its load of sasGlobal until Push returns.
Holds(c, a) == pc[c] \in {"call", "inPush"} /\ loc[c].sas = a

\* C1: in every interleaving of push, reload and shutdown, MustStop is called
\* on an instance only when it is no longer the active pointer and no push
\* that loaded it is still in flight, and no push calls Push on an instance
\* whose MustStop has already been called.  Stated for the steps taken before
\* MustStopStreamAggr is called, when the package is in use by its contract.
C1_StopOnlyWhenUnused ==
    [][ mainPc = "serving" =>
          /\ \A a \in 1..Len(insts) :
                insts'[a].stops > insts[a].stops
                    => /\ sasGlobal # a
                       /\ \A c \in Ctxs : ~Holds(c, a)
          /\ \A c \in Ctxs :
                (pc[c] = "call" /\ pc'[c] = "inPush") => insts[loc[c].sas].stops = 0
      ]_vars


\* Positions of the reloader inside reloadStreamAggrConfig, and those after
\* its load of sasGlobal.
ReloadPcs == {"reload", "fail", "load", "swap", "stopOld", "waitOld", "stopNew", "waitNew", "ok"}
AfterLoad == {"swap", "stopOld", "waitOld", "stopNew", "waitNew", "ok"}
\* The reload in progress parsed a candidate that differs from / equals the
\* instance it loaded.
Differs == rl.pc \in AfterLoad /\ ~Equal(insts, rl.sasNew, rl.sas)
Same == rl.pc \in AfterLoad /\ Equal(insts, rl.sasNew, rl.sas)

\* C2: a reload whose candidate differs from the active instance changes the
\* active pointer exactly once, from the old instance to the candidate; the
\* old instance's MustStop is called only after the swap; the candidate is
\* not stopped by the reload.
C2_SwapOnceThenStopOld ==
    /\ [](Differs =>
            /\ rl.pc \in {"swap", "stopOld", "waitOld", "ok"}
            /\ insts[rl.sasNew].stops = 0
            /\ rl.pc = "swap" => (sasGlobal = rl.sas /\ insts[rl.sas].stops = 0)
            /\ rl.pc \in {"stopOld", "waitOld", "ok"}
                  => (sasGlobal = rl.sasNew /\ rl.sasOld = rl.sas /\ rl.sasOld # rl.sasNew)
            /\ rl.pc = "stopOld" => insts[rl.sasOld].stops = 0
            /\ rl.pc \in {"waitOld", "ok"} => insts[rl.sasOld].stops = 1)
    /\ [][ (rl.pc \in ReloadPcs /\ sasGlobal' # sasGlobal)
              => (Differs /\ rl.pc = "swap" /\ rl'.pc = "stopOld") ]_vars
    /\ [][ (rl.pc = "swap" /\ rl'.pc # "swap") => sasGlobal' # sasGlobal ]_vars

\* A differing reload has swapped and stopped the old instance.
C2_Witness ==
    /\ Differs
    /\ rl.pc = "ok"
    /\ insts[rl.sasOld].stopped
    /\ sasGlobal = rl.sasNew

\* C3: a reload whose candidate equals the active instance leaves the very
\* same instance active, stops the candidate, increments the reload counter
\* by one and sets last-success to 1 and the success timestamp to now.
C3_UnchangedReload ==
    /\ [](Same =>
            /\ rl.pc \in {"stopNew", "waitNew", "ok"}
            /\ sasGlobal = rl.sas
            /\ sasGlobal # rl.sasNew
            /\ insts[sasGlobal].stops = 0
            /\ rl.pc = "stopNew" => insts[rl.sasNew].stops = 0
            /\ rl.pc = "waitNew" => insts[rl.sasNew].stops = 1
            /\ rl.pc = "ok" => (insts[rl.sasNew].stops = 1 /\ insts[rl.sasNew].stopped))
    /\ [][ (Same /\ rl.pc = "ok" /\ rl'.pc # "ok")
              => /\ rl'.pc = "select"
                 /\ sasGlobal' = sasGlobal
                 /\ saCfgSuccess' = 1
                 /\ saCfgTimestamp' = now ]_vars
    /\ [][ IF rl.pc = "reload" /\ rl'.pc # "reload"
           THEN saCfgReloads' = saCfgReloads + 1
           ELSE saCfgReloads' = saCfgReloads ]_vars

\* An unchanged reload has stopped its candidate and is about to refresh a
\* success timestamp that is older than now.
C3_Witness ==
    /\ Same
    /\ rl.pc = "ok"
    /\ insts[rl.sasNew].stopped
    /\ saCfgReloads = 1
    /\ saCfgTimestamp < now

\* C4: a reload whose parse fails leaves the active pointer unchanged and the
\* active instance not stopped, increments the error counter by one, sets
\* last-success to 0 and leaves the success timestamp alone.
C4_FailedReload ==
    /\ [](rl.pc = "fail" =>
            /\ rl.sasNew = Nil
            /\ sasGlobal # Nil
            /\ insts[sasGlobal].stops = 0)
    /\ [][ (rl.pc = "reload" /\ rl'.pc = "fail")
              => /\ sasGlobal' = sasGlobal
                 /\ insts' = insts
                 /\ saCfgReloadErr' = saCfgReloadErr
                 /\ saCfgTimestamp' = saCfgTimestamp ]_vars
    /\ [][ rl.pc = "fail"
              => /\ sasGlobal' = sasGlobal
                 /\ \A a \in 1..Len(insts) : insts'[a].stops = insts[a].stops
                 /\ saCfgTimestamp' = saCfgTimestamp
                 /\ IF rl'.pc # "fail"
                    THEN /\ rl'.pc = "select"
                         /\ saCfgReloadErr' = saCfgReloadErr + 1
                         /\ saCfgSuccess' = 0
                    ELSE UNCHANGED <<saCfgReloadErr, saCfgSuccess>> ]_vars

\* After a failed reload a push is inside the instance that was active
\* before it.
C4_Witness ==
    /\ rl.pc = "select"
    /\ saCfgReloadErr = 1
    /\ saCfgSuccess = 0
    /\ \E c \in Ctxs : pc[c] = "inPush" /\ loc[c].sas = sasGlobal /\ sasGlobal # Nil

\* C5: a push concurrent with a reload reads the active pointer once, gets
\* the value the pointer holds at that instant (the instance before the swap,
\* the one after it, or nil; never a candidate that is not installed),
\* dispatches its batch to exactly that value, and is never blocked: it
\* returns a bitmap with one entry per row.
C5_PushBoundToOneInstance ==
    /\ [](\A c \in Ctxs :
            /\ pc[c] # "idle"
                  => ENABLED (PushLoad(c) \/ PushCall(c) \/ PushReturn(c) \/ PushReset(c))
            /\ pc[c] = "reset" => Len(Returned(c)) = Len(loc[c].mrs)
            /\ (pc[c] \in {"call", "inPush"} /\ rl.pc \in {"load", "swap", "stopNew", "waitNew"})
                  => loc[c].sas # rl.sasNew
            /\ (pc[c] \in {"call", "inPush"} /\ Same) => loc[c].sas # rl.sasNew)
    /\ [][ \A c \in Ctxs :
            /\ (pc[c] = "load" /\ pc'[c] # "load")
                  => (pc'[c] = "call" /\ loc'[c].sas = sasGlobal)
            /\ pc[c] # "load" /\ pc'[c] # "idle" => loc'[c].sas = loc[c].sas
            /\ (pc[c] = "call" /\ pc'[c] # "call")
                  => IF loc[c].sas = Nil
                     THEN pc'[c] = "reset" /\ insts' = insts
                     ELSE pc'[c] = "inPush" /\ insts' = PushEntered(insts, loc[c].sas)
            /\ (pc[c] = "inPush" /\ pc'[c] # "inPush")
                  => (pc'[c] = "reset" /\ insts' = PushLeft(insts, loc[c].sas)) ]_vars

\* A push that loaded the old instance is inside it after the swap.
C5_Witness ==
    /\ Differs
    /\ rl.pc = "stopOld"
    /\ \E c \in Ctxs : pc[c] = "inPush" /\ loc[c].sas = rl.sasOld

\* C6: shutdown closes the stop channel, waits for the reloader to exit, then
\* swaps the active pointer to nil, then stops the instance it took; no
\* reload runs once the pointer is taken, and the pointer stays nil.
C6_ShutdownOrder ==
    /\ [](/\ mainPc \in {"wait", "swap", "stop", "waitStop", "done"}
                => saCfgReloaderStopCh = "closed"
          /\ mainPc \in {"swap", "stop", "waitStop", "done"}
                => (rl.pc \in {"none", "exited"} /\ saCfgReloaderWG = 0)
          /\ (mainPc \in {"wait", "swap"} /\ sasGlobal # Nil) => insts[sasGlobal].stops = 0
          /\ mainPc \in {"stop", "waitStop", "done"} => sasGlobal = Nil
          /\ (mainPc = "stop" /\ mainSas # Nil) => insts[mainSas].stops = 0
          /\ (mainPc = "waitStop" /\ mainSas # Nil) => insts[mainSas].stops = 1
          /\ (mainPc = "done" /\ mainSas # Nil) => insts[mainSas].stopped)
    /\ [][ (mainPc \in {"swap", "stop", "waitStop", "done"})
              => (rl' = rl /\ (mainPc # "swap" => sasGlobal' = Nil)) ]_vars

\* Shutdown has returned after at least one reload, the reloader has exited
\* and the instance taken from the pointer is stopped.
C6_Witness ==
    /\ mainPc = "done"
    /\ rl.pc = "exited"
    /\ saCfgReloads >= 1
    /\ mainSas # Nil
    /\ insts[mainSas].stopped


\* The series the engine reads through the slices and views push hands it.
SliceOf(seq, sl) ==
    IF sl.off + sl.len <= Len(seq) THEN SubSeq(seq, sl.off + 1, sl.off + sl.len)
    ELSE <<>>
SeriesRead(c, ts) ==
    LET labels == SliceOf(ctx[c].labels, ts.Labels)
    IN  [Labels |-> [i \in 1..Len(labels) |->
                        Lbl(ToUnsafeString(labels[i].Name, ctx[c].buf),
                            ToUnsafeString(labels[i].Value, ctx[c].buf))],
         Samples |-> SliceOf(ctx[c].samples, ts.Samples)]
\* Every slice and view of the pushed series still lies inside its arena.
Intact(c) ==
    \A i \in 1..Len(PushedTss(c)) :
       LET ts == PushedTss(c)[i]
           r == SeriesRead(c, ts)
       IN  /\ Len(r.Labels) = ts.Labels.len
           /\ Len(r.Samples) = ts.Samples.len
           /\ \A j \in 1..Len(r.Labels) :
                 r.Labels[j].Name # Dangling /\ r.Labels[j].Value # Dangling

C8_HandOff ==
    \A c \in Ctxs :
       (pc[c] = "inPush" \/ (pc[c] = "call" /\ loc[c].sas # Nil))
          => /\ Len(PushedTss(c)) = Len(loc[c].mrs)
             /\ loc[c].matchIdxs.len = Len(loc[c].mrs)
             /\ Returned(c) = Zeros(Len(loc[c].mrs))

\* A two-row batch is inside an instance.
C8_Witness ==
    \E c \in Ctxs :
       /\ pc[c] = "inPush"
       /\ Len(loc[c].mrs) = 2
       /\ Len(PushedTss(c)) = 2

\* C9: the arenas are reset only after Aggregators.Push has returned: from
\* the load of the pointer until Push returns no step changes them, and while
\* Push is in progress every label and sample of the batch is still there.
C9_ResetAfterPush ==
    /\ [](\A c \in Ctxs : pc[c] \in {"call", "inPush"} => Intact(c))
    /\ [][ \A c \in Ctxs :
            /\ pc[c] \in {"load", "call", "inPush"} => ctx'[c] = ctx[c]
            /\ (pc[c] = "reset" /\ pc'[c] # "reset")
                  => (pc'[c] = "idle" /\ ctx'[c] = EmptyCtx) ]_vars

\* Push is in progress on a batch whose labels live in the byte arena.
C9_Witness ==
    \E c \in Ctxs :
       /\ pc[c] = "inPush"
       /\ Len(ctx[c].labels) >= 3
       /\ Len(ctx[c].buf) > 0

\* C10: when WriteDataPoint fails for series i, pushAggregateSeries returns
\* without calling vmstorage.AddRows, does not attempt series i+1.., and has
\* logged exactly one error.
C10_FailFast ==
    /\ stored.errors <= 1
    /\ fb.pc = "loop" => (stored = NothingStored /\ Len(fb.mrs) = fb.i - 1)
    /\ fb.pc = "failed" =>
          /\ stored.addRows = <<>>
          /\ stored.errors = 1
          /\ fb.i <= Len(fb.tss)
          /\ Len(fb.mrs) = fb.i - 1
    /\ fb.pc = "done" => (Len(stored.addRows) = 1 /\ Len(stored.addRows[1]) = Len(fb.tss))

\* The second of three series failed to build: one row was built, the third
\* was not attempted.
C10_Witness ==
    /\ fb.pc = "failed"
    /\ Len(fb.tss) = 3
    /\ fb.i = 2
    /\ Len(fb.mrs) = 1

\* C11: at most one reload executes at any instant.  Only the one reloader
\* goroutine that InitStreamAggr starts runs reloadStreamAggrConfig; a reload
\* begins only from that goroutine's select, by consuming a signal, so the
\* next begins after the previous has returned; and while a reload is in
\* progress MustStopStreamAggr has not got past saCfgReloaderWG.Wait(), so
\* its Swap(nil) never overlaps a reload.
C11_ReloadsSerialized ==
    /\ [](/\ saCfgReloaderWG \in {0, 1}
          /\ rl.pc \in (ReloadPcs \cup {"select"}) => saCfgReloaderWG = 1
          /\ rl.pc \in ReloadPcs => mainPc \in {"serving", "wait"}
          /\ mainPc \in {"swap", "stop", "waitStop", "done"} => rl.pc \notin ReloadPcs)
    /\ [][ (rl.pc # "reload" /\ rl'.pc = "reload")
              => (rl.pc = "select" /\ sighupCh = 1 /\ sighupCh' = 0) ]_vars
    /\ [][ (rl.pc \in ReloadPcs /\ rl'.pc \notin ReloadPcs) => rl'.pc = "select" ]_vars
    /\ [][ (mainPc = "swap" /\ mainPc' # "swap") => rl.pc \notin ReloadPcs ]_vars

\* A reload is in progress while MustStopStreamAggr waits for the reloader
\* and another SIGHUP is already pending.
C11_Witness ==
    /\ rl.pc \in ReloadPcs
    /\ mainPc = "wait"
    /\ sighupCh = 1

\* C12: InitStreamAggr without -streamAggr.config leaves the active pointer
\* nil and still starts the reloader goroutine, so that MustStopStreamAggr
\* signals and waits for a running listener as in the configured case.
C12_ListenerWithoutConfig ==
    (streamAggrConfig = "" /\ mainPc = "serving")
       => /\ sasGlobal = Nil
          /\ rl.pc = "select"
          /\ saCfgReloaderWG = 1

\* The series the claim expects for a row: "__name__" with the row's metric
\* group, then the row's tags in their order, and the row's one sample.
ExpectedSeries(mr) ==
    LET mn == UnmarshalRaw(mr.MetricNameRaw).mn
    IN  [Labels |-> <<Lbl(NameKey, mn.MetricGroup)>>
                       \o [i \in 1..Len(mn.Tags) |-> Lbl(mn.Tags[i].Key, mn.Tags[i].Value)],
         Samples |-> <<[Timestamp |-> mr.Timestamp, Value |-> mr.Value]>>]

\* C13: what push hands to Aggregators.Push is one series per row, in row
\* order; series i reads as the "__name__" label carrying row i's metric
\* group, then one label per tag of row i in tag order, and one sample with
\* row i's timestamp and value.
C13_SeriesPerRow ==
    \A c \in Ctxs :
       pc[c] \in {"call", "inPush"}
          => /\ Len(PushedTss(c)) = Len(loc[c].mrs)
             /\ \A i \in 1..Len(loc[c].mrs) :
                   SeriesRead(c, PushedTss(c)[i]) = ExpectedSeries(loc[c].mrs[i])

\* cpu{host="a"} 1 @1000 and cpu{host="b"} 2 @2000 are inside an instance as
\* two series of two labels and one sample, in that order.
C13_Witness ==
    \E c \in Ctxs :
       /\ pc[c] = "inPush"
       /\ Len(PushedTss(c)) = 2
       /\ SeriesRead(c, PushedTss(c)[1])
             = [Labels |-> <<Lbl(NameKey, StrCpu), Lbl(StrHost, StrA)>>,
                Samples |-> <<[Timestamp |-> 1000, Value |-> 1]>>]
       /\ SeriesRead(c, PushedTss(c)[2])
             = [Labels |-> <<Lbl(NameKey, StrCpu), Lbl(StrHost, StrB)>>,
                Samples |-> <<[Timestamp |-> 2000, Value |-> 2]>>]

\* The identity a series' labels stand for: the "__name__" label's value as
\* the metric group, every other label as a tag, in label order.
RECURSIVE SeriesIdentity(_)
SeriesIdentity(labels) ==
    IF labels = <<>> THEN EmptyMetricName
    ELSE LET l == labels[Len(labels)]
             rest == SeriesIdentity(SubSeq(labels, 1, Len(labels) - 1))
         IN  IF l.Name = NameKey THEN [rest EXCEPT !.MetricGroup = l.Value]
             ELSE [rest EXCEPT !.Tags = Append(@, [Key |-> l.Name, Value |-> l.Value])]

\* C14: when every row builds, pushAggregateSeries calls vmstorage.AddRows
\* exactly once, with one row per series in series order; each row carries
\* the series' identity and its first sample's value and is stamped with the
\* timestamp taken when the call began, not the sample's; an error of AddRows
\* is logged and AddRows is not called again.
C14_OneWritePerCall ==
    /\ [](/\ Len(stored.addRows) <= 1
          /\ fb.pc \in {"loop", "failed"} => stored.addRows = <<>>
          /\ fb.pc = "done" =>
                /\ Len(stored.addRows) = 1
                /\ stored.errors \in {0, 1}
                /\ Len(stored.addRows[1]) = Len(fb.tss)
                /\ \A i \in 1..Len(fb.tss) :
                      LET r == stored.addRows[1][i]
                      IN  /\ r.Timestamp = fb.currentTimestamp
                          /\ r.Value = fb.tss[i].Samples[1].Value
                          /\ UnmarshalRaw(r.MetricNameRaw)
                                = [ok |-> TRUE, mn |-> SeriesIdentity(fb.tss[i].Labels)])
    /\ [][ IF fb.pc # "loop" /\ fb'.pc = "loop"
           THEN fb'.currentTimestamp = now * 1000
           ELSE fb'.currentTimestamp = fb.currentTimestamp ]_vars
    /\ [][ (fb.pc = "done" /\ fb'.pc = "done") => stored' = stored ]_vars

\* Three series were written in one call whose AddRows failed; the clock has
\* moved since the call began, a series with two samples is among them, and
\* so is one whose sample has another timestamp than the rows.
C14_Witness ==
    /\ fb.pc = "done"
    /\ Len(fb.tss) = 3
    /\ stored.errors = 1
    /\ Len(stored.addRows) = 1
    /\ fb.currentTimestamp < now * 1000
    /\ \E i \in 1..3 : Len(fb.tss[i].Samples) = 2
    /\ \E i \in 1..3 : fb.tss[i].Samples[1].Timestamp # fb.currentTimestamp

\* tss, labels, samples and buf of a context all have length zero.
ArenasEmpty(st) ==
    /\ Len(st.tss) = 0
    /\ Len(st.labels) = 0
    /\ Len(st.samples) = 0
    /\ Len(st.buf) = 0

\* C15: after every push has returned and after every Reset the context's
\* arenas all have length zero, and the next push starts from empty arenas.
C15_ArenasEmptyAfterPush ==
    /\ [](\A c \in Ctxs :
            /\ pc[c] = "idle" => ArenasEmpty(ctx[c])
            /\ pc[c] # "idle" => loc[c].tssLen = 0)
    /\ [][ \A c \in Ctxs :
            (pc[c] = "reset" /\ pc'[c] # "reset")
               => (pc'[c] = "idle" /\ ArenasEmpty(ctx'[c])) ]_vars
    /\ [][ \A c \in Ctxs :
            (pc[c] = "idle" /\ pc'[c] = "idle") => ArenasEmpty(ctx'[c]) ]_vars

\* A push of two rows has its bitmap back and is about to run ctx.Reset() on
\* arenas that hold the batch.
C15_Witness ==
    \E c \in Ctxs :
       /\ pc[c] = "reset"
       /\ Len(ctx[c].tss) = 2
       /\ Len(ctx[c].labels) >= 2
       /\ Len(ctx[c].samples) = 2
       /\ Len(ctx[c].buf) > 0
       /\ ENABLED PushReset(c)

\* C16: no step of push writes sasGlobal.  The pointer changes only in
\* InitStreamAggr's Store, in reloadStreamAggrConfig's Swap and in
\* MustStopStreamAggr's Swap(nil), and in none of these steps does a push
\* move.
C16_PushNeverWritesPointer ==
    [][ sasGlobal' # sasGlobal
          => /\ pushVars' = pushVars
             /\ \/ /\ mainPc = "start" /\ mainPc' = "serving"
                   /\ sasGlobal = Nil /\ sasGlobal' = Len(insts')
                \/ /\ rl.pc = "swap" /\ rl'.pc = "stopOld"
                   /\ sasGlobal' = rl.sasNew
                \/ /\ mainPc = "swap" /\ mainPc' = "stop"
                   /\ sasGlobal' = Nil
      ]_vars

\* A push has gone through Aggregators.Push and is about to return, with the
\* pointer still the instance it loaded and no reload attempted.
C16_Witness ==
    \E c \in Ctxs :
       /\ pc[c] = "reset"
       /\ loc[c].sas # Nil
       /\ loc[c].sas = sasGlobal
       /\ saCfgReloads = 0

\* C17: MustStop is called at most once on every constructed instance, and
\* once MustStopStreamAggr has returned it has been called, and has returned,
\* exactly once on each of them.  While the process serves, the instances not
\* yet stopped are the active one and the candidate of the reload in progress.
C17_StoppedExactlyOnce ==
    /\ \A a \in 1..Len(insts) :
          /\ insts[a].stops <= 1
          /\ insts[a].stopped => insts[a].stops = 1
          /\ (insts[a].stops = 0 /\ Serving)
                => (a = sasGlobal \/ a = mainSas \/ a = rl.sasNew \/ a = rl.sasOld)
    /\ mainPc = "done" => \A a \in 1..Len(insts) : insts[a].stops = 1 /\ insts[a].stopped

\* MustStopStreamAggr has returned after a reload that swapped and one that
\* changed nothing: three instances, all stopped.
C17_Witness ==
    /\ mainPc = "done"
    /\ Len(insts) = 3
    /\ saCfgReloads = 2
    /\ saCfgReloadErr = 0
    /\ insts[1].cfg # insts[2].cfg
    /\ insts[2].cfg = insts[3].cfg
    /\ \A a \in 1..3 : insts[a].stopped

\* C18: once InitStreamAggr has stored an instance loaded from the config,
\* sasGlobal is not nil until MustStopStreamAggr's Swap(nil).  Whenever a
\* reload runs the pointer is not nil: the value the reload loads for Equal
\* is an instance, and so is the one its Swap returns and it stops.
C18_PointerNonNilWhileConfigured ==
    /\ (streamAggrConfig # "" /\ mainPc \in {"serving", "wait", "swap"}) => sasGlobal # Nil
    /\ rl.pc \in ReloadPcs => sasGlobal # Nil
    /\ rl.pc \in AfterLoad => (rl.sas # Nil /\ rl.sasNew # Nil)
    /\ rl.pc \in {"stopOld", "waitOld"} => rl.sasOld # Nil

\* A reload is about to stop the instance its Swap returned while
\* MustStopStreamAggr waits for the reloader.
C18_Witness ==
    /\ rl.pc = "stopOld"
    /\ rl.sasOld # Nil
    /\ sasGlobal = rl.sasNew
    /\ mainPc = "wait"

\* C19: saCfgReloadErr never exceeds saCfgReloads and neither counter ever
\* decreases; saCfgReloads goes up by one exactly when a reload starts,
\* whatever its outcome, and saCfgReloadErr exactly when one ends in a parse
\* error; saCfgSuccess is written only by a completing InitStreamAggr or
\* reload, 1 when its parse succeeded and 0 when it failed, so with no reload
\* in progress it tells the outcome of the last one completed.
C19_ReloadMetrics ==
    /\ [](/\ saCfgReloadErr <= saCfgReloads
          /\ saCfgSuccess \in {0, 1}
          /\ rl.pc \in {"fail", "load"} => saCfgReloads >= 1
          /\ rl.pc = "fail" => saCfgReloadErr < saCfgReloads
          /\ (rl.pc \notin ReloadPcs /\ saCfgSuccess = 0 /\ Serving /\ streamAggrConfig # "")
                => saCfgReloadErr >= 1
          /\ (rl.pc \notin ReloadPcs /\ saCfgSuccess = 1)
                => (sasGlobal # Nil \/ mainPc \in {"stop", "waitStop", "done"}))
    /\ [][ /\ saCfgReloads' >= saCfgReloads
           /\ saCfgReloadErr' >= saCfgReloadErr ]_vars
    /\ [][ IF rl.pc = "reload" /\ rl'.pc \in {"fail", "load"}
           THEN saCfgReloads' = saCfgReloads + 1
           ELSE saCfgReloads' = saCfgReloads ]_vars
    /\ [][ IF rl.pc = "fail" /\ rl'.pc = "select"
           THEN saCfgReloadErr' = saCfgReloadErr + 1 /\ saCfgSuccess' = 0
           ELSE saCfgReloadErr' = saCfgReloadErr ]_vars
    /\ [][ (rl.pc = "ok" /\ rl'.pc = "select") => saCfgSuccess' = 1 ]_vars
    /\ [][ (mainPc = "start" /\ mainPc' = "serving" /\ streamAggrConfig # "")
              => saCfgSuccess' = 1 ]_vars
    /\ [][ saCfgSuccess' # saCfgSuccess
              => \/ rl.pc = "fail" /\ rl'.pc = "select"
                 \/ rl.pc = "ok" /\ rl'.pc = "select"
                 \/ mainPc = "start" /\ mainPc' = "serving" ]_vars

\* A reload that failed was followed by one that parsed: two attempts, one
\* error, and the flag back at 1 with no reload in progress.
C19_Witness ==
    /\ rl.pc = "select"
    /\ saCfgReloads = 2
    /\ saCfgReloadErr = 1
    /\ saCfgSuccess = 1

\* C20: under fair scheduling, once MustStopStreamAggr has closed the stop
\* channel the reloader exits, after no more reloads than there were SIGHUPs,
\* and MustStopStreamAggr then takes the pointer, stops the instance and
\* returns.
C20_ShutdownReturns ==
    /\ (saCfgReloaderStopCh = "closed") ~> (rl.pc \in {"none", "exited"})
    /\ (mainPc = "wait") ~> (mainPc = "done")
    /\ [](saCfgReloads + sighupCh + (IF rl.pc = "reload" THEN 1 ELSE 0) <= sighups)
    /\ [](mainPc = "done" => (sasGlobal = Nil /\ rl.pc \in {"none", "exited"}))

\* MustStopStreamAggr has returned after two SIGHUPs that were both served,
\* with a push that went through an instance on its way out.
C20_Witness ==
    /\ mainPc = "done"
    /\ rl.pc = "exited"
    /\ sighups = 2
    /\ saCfgReloads = 2
    /\ \E c \in Ctxs : pc[c] = "reset" /\ loc[c].sas # Nil

====
